---- MODULE Spec2Model ----
(***************************************************************************)
(* A model of the xknx data point type transcoders:                        *)
(*   - DPTBase.validate_payload and the registry lookup of                 *)
(*     DPTBase.parse_transcoder        (src/xknx/dpt/dpt.py)               *)
(*   - DPTComplex.to_knx                (src/xknx/dpt/dpt.py)               *)
(*   - DPTTime.from_knx / DPTTime.to_knx (src/xknx/dpt/dpt_10.py)           *)
(*                                                                         *)
(* Every operation is a pure class method.  A state records the last call  *)
(* (its name, input and outcome) and, for a chained call, the input of the *)
(* call whose outcome was fed to it.  The class hierarchy below DPTBase is *)
(* the only state that persists between calls.                             *)
(*                                                                         *)
(* An outcome is [kind |-> "ok", val |-> v] for a returned value and       *)
(* [kind |-> <exception class>, val |-> <what the exception carries>] for  *)
(* a raised exception.                                                     *)
(***************************************************************************)
EXTENDS Integers, Sequences, FiniteSets, TLC

VARIABLES call, input, result, origin, classes

vars == <<call, input, result, origin, classes>>

(***************************************************************************)
(* Bounds of the model.                                                    *)
(***************************************************************************)
\* longest array payload handed to a transcoder
MaxLen == 4
\* number of classes defined below DPTBase
MaxClasses == 2

(***************************************************************************)
(* Outcomes.                                                               *)
(***************************************************************************)
Ok(v) == [kind |-> "ok", val |-> v]

Raise(exc, info) == [kind |-> exc, val |-> info]

NoCall == [kind |-> "none", val |-> <<>>]

(***************************************************************************)
(* Python integer bit operations (unbounded non-negative integers).        *)
(***************************************************************************)
RECURSIVE BitAnd(_, _)
BitAnd(a, b) ==
    IF a = 0 \/ b = 0 THEN 0
    ELSE (IF a % 2 = 1 /\ b % 2 = 1 THEN 1 ELSE 0) + 2 * BitAnd(a \div 2, b \div 2)

RECURSIVE BitOr(_, _)
BitOr(a, b) ==
    IF a = 0 THEN b
    ELSE IF b = 0 THEN a
    ELSE (IF a % 2 = 1 \/ b % 2 = 1 THEN 1 ELSE 0) + 2 * BitOr(a \div 2, b \div 2)

RECURSIVE ShiftLeft(_, _)
ShiftLeft(a, n) == IF n = 0 THEN a ELSE ShiftLeft(2 * a, n - 1)

RECURSIVE ShiftRight(_, _)
ShiftRight(a, n) == IF n = 0 THEN a ELSE ShiftRight(a \div 2, n - 1)

(***************************************************************************)
(* Payloads (xknx.dpt.payload).  "other" stands for any object that is     *)
(* neither a DPTArray nor a DPTBinary.                                     *)
(***************************************************************************)
DPTArray(bytes) == [type |-> "DPTArray", value |-> bytes]

DPTBinary(bit) == [type |-> "DPTBinary", value |-> <<bit>>]

OtherPayload == [type |-> "other", value |-> <<>>]

(***************************************************************************)
(* DPTBase.validate_payload, for a class with the given payload_type and   *)
(* payload_length (None for a class that sets none).                       *)
(***************************************************************************)
\* Python's None where an int is expected: equal to no length and to no number
None == -1

\* A validate_payload that reports a wrong length as a wrong type
LengthReportedAsType(fixedType, fixedLength, payload) ==
    Raise("CouldNotParseTelegram",
          [message |-> "Invalid payload type", expected_type |-> fixedType])

LengthMismatch(fixedType, fixedLength, payload) ==
    Raise("CouldNotParseTelegram",
          [message |-> "Invalid payload length", expected_length |-> fixedLength])

TypeMismatch(fixedType, fixedLength, payload) ==
    Raise("CouldNotParseTelegram",
          [message |-> "Invalid payload type", expected_type |-> fixedType])

validate_payload(payload_type, payload_length, payload) ==
    IF payload_type = "DPTArray" /\ payload.type = "DPTArray"
    THEN IF payload_length = Len(payload.value)
         THEN Ok(payload.value)
         ELSE LengthMismatch(payload_type, payload_length, payload)
    ELSE IF payload_type = "DPTBinary" /\ payload.type = "DPTBinary"
    THEN Ok(<<payload.value[1]>>)
    ELSE TypeMismatch(payload_type, payload_length, payload)

(***************************************************************************)
(* time.struct_time.  tm is the 9-tuple (tm_year, tm_mon, tm_mday, tm_hour,*)
(* tm_min, tm_sec, tm_wday, tm_yday, tm_isdst), so Python's index i is     *)
(* tm[i + 1].  yearobj is the identity of the int object held in tm_year:  *)
(* "strptime" is the constant 1900 that time.strptime stores when the      *)
(* format has no year, "fresh" is any other int object.  Equality of       *)
(* struct_time values compares tm only.                                    *)
(***************************************************************************)
StructTime(tm, yearobj) == [tm |-> tm, yearobj |-> yearobj]

\* time.strptime("", "")
DefaultYear == 1900

default_time == StructTime(<<DefaultYear, 1, 1, 0, 0, 0, 0, 1, -1>>, "strptime")

\* time.strptime(f"{hours} {minutes} {seconds} {weekday}", "%H %M %S %w")
strptime_HMSw(hours, minutes, seconds, weekday) ==
    IF hours \in 0..23 /\ minutes \in 0..59 /\ seconds \in 0..61 /\ weekday \in 0..6
    THEN Ok(StructTime(<<DefaultYear, 1, 1, hours, minutes, seconds,
                         IF weekday = 0 THEN 6 ELSE weekday - 1, 1, -1>>,
                       "strptime"))
    ELSE Raise("ValueError", <<>>)

(***************************************************************************)
(* DPTTime (DPT 10.001).                                                   *)
(***************************************************************************)
DPTTime_payload_type == "DPTArray"

DPTTime_payload_length == 3

LeapSecondRange(weekday, hours, minutes, seconds) ==
    /\ 0 <= weekday /\ weekday <= 7
    /\ 0 <= hours /\ hours <= 23
    /\ 0 <= minutes /\ minutes <= 59
    /\ 0 <= seconds /\ seconds <= 61

test_range(weekday, hours, minutes, seconds) ==
    /\ 0 <= weekday /\ weekday <= 7
    /\ 0 <= hours /\ hours <= 23
    /\ 0 <= minutes /\ minutes <= 59
    /\ 0 <= seconds /\ seconds <= 59

DPTTime_validate(payload) ==
    validate_payload(DPTTime_payload_type, DPTTime_payload_length, payload)

DPTTime_from_knx(payload) ==
    LET v == DPTTime_validate(payload) IN
    IF v.kind # "ok" THEN v
    ELSE
      LET raw     == v.val
          weekday == ShiftRight(BitAnd(raw[1], 224), 5)
          hours   == BitAnd(raw[1], 31)
          minutes == BitAnd(raw[2], 63)
          seconds == BitAnd(raw[3], 63)
      IN
      IF ~ test_range(weekday, hours, minutes, seconds)
      THEN Raise("ConversionError", [message |-> "Could not parse DPTTime", raw |-> raw])
      ELSE
        LET w == IF weekday = 0 THEN 1 ELSE IF weekday = 7 THEN 0 ELSE weekday
            t == strptime_HMSw(hours, minutes, seconds, w)
        IN IF t.kind = "ValueError"
           THEN Raise("ConversionError",
                      [message |-> "Could not parse DPTTime", raw |-> raw])
           ELSE t

\* CPython keeps one object per int in -5..256
SmallIntCached(n) == n >= -5 /\ n <= 256

\* value[index] is _default_time[index]   (index is Python's, 0-based)
IsSameObject(value, index) ==
    /\ value.tm[index + 1] = default_time.tm[index + 1]
    /\ \/ SmallIntCached(value.tm[index + 1])
       \/ (index = 0 /\ value.yearobj = default_time.yearobj)

\* the for loop over [0, 1, 2, 6, 7, 8]
to_knx_weekday(value) ==
    IF \E index \in {0, 1, 2, 6, 7, 8} : ~ IsSameObject(value, index)
    THEN value.tm[7] + 1
    ELSE 0

\* value is any Python object: a struct_time record, or [tm |-> <<>>, ...] for
\* an object of another type
IsStructTime(value) == Len(value.tm) = 9

DPTTime_to_knx(value) ==
    IF ~ IsStructTime(value)
    THEN Raise("ConversionError",
               [message |-> "Could not serialize DPTTime - time.struct_time expected"])
    ELSE Ok(DPTArray(<<BitOr(ShiftLeft(to_knx_weekday(value), 5), value.tm[4]),
                       value.tm[5],
                       value.tm[6]>>))

(***************************************************************************)
(* Inputs of the time transcoder.                                          *)
(***************************************************************************)
\* byte values tried in bytes 1 and 2 of a 3-byte payload (byte 0 takes all of 0..255)
ByteSample == {0, 5, 7, 59, 60, 63, 64, 69, 127, 128, 187, 255}

\* byte values tried in payloads of another length
FewBytes == {0, 33}

ThreeBytePayloads ==
    {DPTArray(<<b0, b1, b2>>) : b0 \in 0..255, b1 \in ByteSample, b2 \in {0, 7, 59, 60, 71, 255}}

RECURSIVE SeqsOfLen(_, _)
SeqsOfLen(S, n) ==
    IF n = 0 THEN {<<>>}
    ELSE {Append(s, x) : s \in SeqsOfLen(S, n - 1), x \in S}

OddPayloads ==
    {DPTArray(bs) : bs \in UNION {SeqsOfLen(FewBytes, n) : n \in (0..MaxLen)}}
      \cup {DPTBinary(0), DPTBinary(1), OtherPayload}

Payloads == ThreeBytePayloads \cup OddPayloads

\* struct_time values handed to to_knx: any 9 ints make a struct_time
StructTimes ==
    {StructTime(<<y, mo, d, h, mi, s, wd, yd, dst>>, yo) :
        y \in {DefaultYear, 2024}, mo \in {1, 6}, d \in {1, 2},
        h \in {0, 1, 13, 23, 24, 32}, mi \in {0, 5, 59, 60}, s \in {0, 7, 59, 60},
        wd \in 0..6, yd \in {1, 153}, dst \in {-1, 0},
        yo \in {"strptime", "fresh"}}

RealStructTimes == {v \in StructTimes : v.yearobj = "strptime" => v.tm[1] = DefaultYear}

NotStructTime == [tm |-> <<>>, yearobj |-> "fresh"]

TimeValues == RealStructTimes \cup {NotStructTime}

(***************************************************************************)
(* DPTComplex.to_knx.  from_dict and _to_knx are abstract: what a concrete *)
(* class makes of them is an outcome, a returned value or any exception.   *)
(* An exception class is caught by an except clause naming it or one of    *)
(* its base classes.                                                       *)
(***************************************************************************)
ExceptionBases ==
    [ValueError |-> "Exception", TypeError |-> "Exception", AttributeError |-> "Exception",
     ConversionError |-> "Exception", LookupError |-> "Exception",
     ArithmeticError |-> "Exception", KeyError |-> "LookupError",
     OverflowError |-> "ArithmeticError", UnicodeEncodeError |-> "ValueError",
     Exception |-> "object"]

RECURSIVE IsExceptionClass(_, _)
IsExceptionClass(exc, base) ==
    IF exc = base THEN TRUE
    ELSE IF exc = "object" THEN FALSE
    ELSE IsExceptionClass(ExceptionBases[exc], base)

\* except (ValueError, TypeError, AttributeError, ConversionError)
to_knx_catches(exc) ==
    \E base \in {"ValueError", "TypeError", "AttributeError", "ConversionError"} :
        IsExceptionClass(exc, base)

DPTComplex_to_knx(value, from_dict, low_level) ==
    LET outcome == IF value.isinstance THEN low_level
                   ELSE IF from_dict.kind = "ok" THEN low_level
                   ELSE from_dict
    IN IF outcome.kind # "ok" /\ to_knx_catches(outcome.kind)
       THEN Raise("ConversionError",
                  [message |-> <<"Could not serialize", outcome.val>>, value |-> value])
       ELSE outcome

\* values handed to DPTComplex.to_knx: an instance of cls.data_type, a mapping
\* with or without the keys from_dict reads, an object of another type
ComplexValues ==
    {[isinstance |-> TRUE, what |-> "data_type instance"],
     [isinstance |-> FALSE, what |-> "mapping"],
     [isinstance |-> FALSE, what |-> "mapping lacking a key"],
     [isinstance |-> FALSE, what |-> "None"]}

Messages == {"'hour'", "out of range"}

\* data_type.from_dict(value): a mapping with every key may be accepted or
\* refused for its values, a missing key fails the subscript (KeyError) or is
\* reported by from_dict itself (ValueError), None is no mapping
from_dict_outcomes(value) ==
    IF value.what = "mapping"
    THEN {Ok("data_type instance")}
           \cup {Raise(exc, msg) : exc \in {"ValueError", "TypeError", "ConversionError"},
                                   msg \in Messages}
    ELSE IF value.what = "mapping lacking a key"
    THEN {Raise(exc, msg) : exc \in {"KeyError", "ValueError"}, msg \in Messages}
    ELSE IF value.what = "None"
    THEN {Raise(exc, msg) : exc \in {"TypeError", "AttributeError"}, msg \in Messages}
    ELSE {Ok("data_type instance")}

\* cls._to_knx(data): the payload, or the failure of the packing
to_knx_outcomes ==
    {Ok("DPTArray")}
      \cup {Raise(exc, msg) : exc \in {"ValueError", "TypeError", "AttributeError",
                                       "ConversionError", "OverflowError",
                                       "UnicodeEncodeError"},
                              msg \in Messages}

(***************************************************************************)
(* Inputs of validate_payload: the shape a class declares.  DPTBase sets   *)
(* payload_length to None; an array-shaped class sets its own length.      *)
(***************************************************************************)
Shapes ==
    {[payload_type |-> "DPTArray", payload_length |-> n] : n \in (1..MaxLen) \cup {None}}
      \cup {[payload_type |-> "DPTBinary", payload_length |-> None]}

SomePayloads ==
    OddPayloads \cup {DPTArray(<<b0, b1, b2>>) : b0 \in {30, 33}, b1 \in {5}, b2 \in {7}}

NoOrigin == <<>>

(***************************************************************************)
(* The calls of the time transcoder and of validate_payload.  A behaviour   *)
(* is one call on one input, or one call followed by the inverse call on   *)
(* what it returned.                                                       *)
(***************************************************************************)
Init ==
    /\ call = "none"
    /\ input = <<>>
    /\ result = NoCall
    /\ origin = NoOrigin
    /\ classes = <<>>

\* cls.validate_payload(payload) on a class of the given shape
ValidatePayload ==
    /\ call = "none"
    /\ \E shape \in Shapes, payload \in SomePayloads :
        /\ call' = "validate_payload"
        /\ input' = [shape |-> shape, payload |-> payload]
        /\ result' = validate_payload(shape.payload_type, shape.payload_length, payload)
        /\ origin' = NoOrigin
        /\ UNCHANGED classes

\* DPTTime.from_knx(payload)
FromKnx ==
    /\ call = "none"
    /\ \E payload \in Payloads :
        /\ call' = "from_knx"
        /\ input' = payload
        /\ result' = DPTTime_from_knx(payload)
        /\ origin' = NoOrigin
        /\ UNCHANGED classes

\* DPTTime.to_knx(value)
ToKnx ==
    /\ call = "none"
    /\ \E value \in TimeValues :
        /\ call' = "to_knx"
        /\ input' = value
        /\ result' = DPTTime_to_knx(value)
        /\ origin' = NoOrigin
        /\ UNCHANGED classes

\* DPTTime.from_knx(DPTTime.to_knx(value)), the second call
FromKnxOfToKnx ==
    /\ call = "to_knx"
    /\ result.kind = "ok"
    /\ call' = "from_knx(to_knx)"
    /\ origin' = input
    /\ input' = result.val
    /\ result' = DPTTime_from_knx(result.val)
    /\ UNCHANGED classes

\* DPTTime.to_knx(DPTTime.from_knx(payload)), the second call
ToKnxOfFromKnx ==
    /\ call = "from_knx"
    /\ result.kind = "ok"
    /\ call' = "to_knx(from_knx)"
    /\ origin' = input
    /\ input' = result.val
    /\ result' = DPTTime_to_knx(result.val)
    /\ UNCHANGED classes

\* cls.to_knx(value) on a DPTComplex class whose data_type.from_dict and _to_knx
\* end as from_dict and low_level say
ComplexToKnx ==
    /\ call = "none"
    /\ \E value \in ComplexValues, low_level \in to_knx_outcomes :
        \E from_dict \in from_dict_outcomes(value) :
        /\ call' = "complex.to_knx"
        /\ input' = [value |-> value, from_dict |-> from_dict, low_level |-> low_level]
        /\ result' = DPTComplex_to_knx(value, from_dict, low_level)
        /\ origin' = NoOrigin
        /\ UNCHANGED classes

Next ==
    ValidatePayload \/ FromKnx \/ ToKnx \/ FromKnxOfToKnx \/ ToKnxOfFromKnx \/ ComplexToKnx

Spec == Init /\ [][Next]_vars

(***************************************************************************)
(* The time value a struct_time stands for: a weekday code (0 when no      *)
(* calendar field is set, else 1 = Monday .. 7 = Sunday) and a time of day.*)
(***************************************************************************)
CalendarUnset(value) ==
    \A i \in {1, 2, 3, 7, 8, 9} : value.tm[i] = default_time.tm[i]

TimeOfDay(value) ==
    [weekday |-> IF CalendarUnset(value) THEN 0 ELSE value.tm[7] + 1,
     hour |-> value.tm[4], minute |-> value.tm[5], second |-> value.tm[6]]

LegalTimeValue(value) ==
    /\ IsStructTime(value)
    /\ value.tm[4] \in 0..23
    /\ value.tm[5] \in 0..59
    /\ value.tm[6] \in 0..59
    /\ value.tm[7] \in 0..6

\* a 3-byte array with a legal time in it and its unused bits zero
CleanTimePayload(payload) ==
    /\ payload.type = "DPTArray"
    /\ Len(payload.value) = 3
    /\ payload.value[1] % 32 <= 23
    /\ payload.value[2] <= 59
    /\ payload.value[3] <= 59

(***************************************************************************)
(* C1: from_knx(to_knx(value)) succeeds and gives back the time value      *)
(* (weekday code, hour, minute, second) of every legal value.              *)
(***************************************************************************)
C1_ValueRoundTrip ==
    (call = "from_knx(to_knx)" /\ LegalTimeValue(origin)) =>
        /\ result.kind = "ok"
        /\ TimeOfDay(result.val) = TimeOfDay(origin)

\* the part of C1 the code does keep: every weekday but Monday comes back
C1_RoundTripButMonday ==
    (call = "from_knx(to_knx)" /\ LegalTimeValue(origin)
        /\ TimeOfDay(origin).weekday # 1) =>
        /\ result.kind = "ok"
        /\ TimeOfDay(result.val) = TimeOfDay(origin)

(***************************************************************************)
(* C2: to_knx(from_knx(payload)) is payload, byte for byte, for every      *)
(* 3-byte payload holding a legal time with its unused bits zero.          *)
(***************************************************************************)
C2_WireRoundTrip ==
    (call = "to_knx(from_knx)" /\ CleanTimePayload(origin)) =>
        /\ result.kind = "ok"
        /\ result.val.type = "DPTArray"
        /\ result.val.value = origin.value

\* the part of C2 the code does keep: every weekday code but 1 is kept
C2_RoundTripButMonday ==
    (call = "to_knx(from_knx)" /\ CleanTimePayload(origin)
        /\ origin.value[1] \div 32 # 1) =>
        /\ result.kind = "ok"
        /\ result.val.type = "DPTArray"
        /\ result.val.value = origin.value

(***************************************************************************)
(* C3: validate_payload returns the bytes of an array payload of the       *)
(* declared length, fails with a length mismatch carrying the expected     *)
(* length for an array payload of another length, returns the bit of a     *)
(* binary payload to a binary-shaped class in a 1-tuple, and fails with a  *)
(* type mismatch for every other pair; DPTTime.from_knx given anything but *)
(* a 3-byte array fails with that CouldNotParseTelegram, never with a      *)
(* ConversionError and never returning a value.                            *)
(***************************************************************************)
C3_Classified ==
    call = "validate_payload" =>
        LET shape   == input.shape
            payload == input.payload
        IN
        IF shape.payload_type = "DPTArray" /\ payload.type = "DPTArray"
        THEN IF shape.payload_length # None /\ Len(payload.value) = shape.payload_length
             THEN result.kind = "ok" /\ result.val = payload.value
             ELSE /\ result.kind = "CouldNotParseTelegram"
                  /\ result.val.message = "Invalid payload length"
                  /\ result.val.expected_length = shape.payload_length
        ELSE IF shape.payload_type = "DPTBinary" /\ payload.type = "DPTBinary"
        THEN result.kind = "ok" /\ Len(result.val) = 1 /\ result.val[1] = payload.value[1]
        ELSE /\ result.kind = "CouldNotParseTelegram"
             /\ result.val.message = "Invalid payload type"

C3_TimeValidatesFirst ==
    (call = "from_knx" /\ ~ (input.type = "DPTArray" /\ Len(input.value) = 3)) =>
        /\ result.kind = "CouldNotParseTelegram"
        /\ IF input.type = "DPTArray"
           THEN /\ result.val.message = "Invalid payload length"
                /\ result.val.expected_length = 3
           ELSE result.val.message = "Invalid payload type"

\* C3: validate_payload classifies every (shape, payload) pair as stated, and
\* DPTTime.from_knx fails that validation for anything but a 3-byte array
C3_Validation == C3_Classified /\ C3_TimeValidatesFirst

\* C3 happens: a 2-byte array handed to DPTTime.from_knx fails with the length
\* mismatch
C3_Witness ==
    /\ call = "from_knx"
    /\ input.type = "DPTArray"
    /\ Len(input.value) = 2
    /\ result.kind = "CouldNotParseTelegram"
    /\ result.val.message = "Invalid payload length"

(***************************************************************************)
(* C4: from_knx of a 3-byte array (b0, b1, b2) reads weekday = b0 >> 5,    *)
(* hour = b0 & 0x1F, minute = b1 & 0x3F, second = b2 & 0x3F, fails with    *)
(* ConversionError exactly when hour > 23 or minute > 59 or second > 59,   *)
(* and else returns that time of day on Monday for code 0 or 1, on weekday *)
(* k for code k in 2..6 and on Sunday for code 7.                          *)
(***************************************************************************)
C4_Decode ==
    (call = "from_knx" /\ input.type = "DPTArray" /\ Len(input.value) = 3) =>
        LET weekday == input.value[1] \div 32
            hour    == input.value[1] % 32
            minute  == input.value[2] % 64
            second  == input.value[3] % 64
        IN
        IF hour > 23 \/ minute > 59 \/ second > 59
        THEN result.kind = "ConversionError"
        ELSE /\ result.kind = "ok"
             /\ result.val.tm[4] = hour
             /\ result.val.tm[5] = minute
             /\ result.val.tm[6] = second
             /\ result.val.tm[7] = (IF weekday \in {0, 1} THEN 0
                                    ELSE IF weekday = 7 THEN 6
                                    ELSE weekday - 1)

\* C4 happens: (0x21, 0x05, 0x07) decodes to Monday 01:05:07
C4_Witness ==
    /\ call = "from_knx"
    /\ input = DPTArray(<<33, 5, 7>>)
    /\ result.kind = "ok"
    /\ result.val.tm[4] = 1 /\ result.val.tm[5] = 5 /\ result.val.tm[6] = 7
    /\ result.val.tm[7] = 0

(***************************************************************************)
(* C5: to_knx of a struct_time emits weekday code 0 exactly when year,     *)
(* month, day, weekday, yearday and dst all equal those of the default     *)
(* time, and else the code tm_wday + 1; anything but a struct_time fails   *)
(* with ConversionError.  Stated for the inputs whose hour fits the 5-bit  *)
(* hour field, so that bits 7-5 of byte 0 hold the weekday code alone.     *)
(***************************************************************************)
C5_EncodeWeekday ==
    (call = "to_knx" /\ (IsStructTime(input) => input.tm[4] \in 0..23)) =>
        IF ~ IsStructTime(input)
        THEN result.kind = "ConversionError"
        ELSE /\ result.kind = "ok"
             /\ result.val.value[1] \div 32 =
                    (IF CalendarUnset(input) THEN 0 ELSE input.tm[7] + 1)

\* what the code does instead: code 0 only if the year is the very int object
\* of the default time
C5_EncodeWeekdayByIdentity ==
    (call = "to_knx" /\ IsStructTime(input) /\ input.tm[4] \in 0..23) =>
        /\ result.kind = "ok"
        /\ result.val.value[1] \div 32 =
               (IF CalendarUnset(input) /\ input.yearobj = "strptime"
                THEN 0 ELSE input.tm[7] + 1)

(***************************************************************************)
(* C6: to_knx of a struct_time fails with ConversionError when hour,       *)
(* minute or second is out of range, and else returns a 3-byte array with  *)
(* hour 0..23, minute 0..59, second 0..59 and bits 7-6 of bytes 1 and 2    *)
(* zero.                                                                   *)
(***************************************************************************)
C6_EncodeRepresentable ==
    (call = "to_knx" /\ IsStructTime(input)) =>
        IF input.tm[4] \in 0..23 /\ input.tm[5] \in 0..59 /\ input.tm[6] \in 0..59
        THEN /\ result.kind = "ok"
             /\ CleanTimePayload(result.val)
        ELSE result.kind = "ConversionError"

(***************************************************************************)
(* C10: DPTComplex.to_knx hands an instance of the value-object type       *)
(* straight to the low-level encoder and anything else through from_dict   *)
(* first; whatever fails, from_dict or the encoder, the caller sees a      *)
(* ConversionError carrying the failure's message and the input, and never *)
(* another exception.                                                      *)
(***************************************************************************)
FailureOf(in) ==
    IF in.value.isinstance THEN in.low_level
    ELSE IF in.from_dict.kind # "ok" THEN in.from_dict
    ELSE in.low_level

\* C10: every failure of from_dict or of the low-level encoder reaches the
\* caller as a ConversionError with the failure's message and the input
C10_OneErrorSurface ==
    call = "complex.to_knx" =>
        IF FailureOf(input).kind = "ok"
        THEN result = Ok("DPTArray")
        ELSE /\ result.kind = "ConversionError"
             /\ result.val.message = <<"Could not serialize", FailureOf(input).val>>
             /\ result.val.value = input.value

\* the part of C10 the code does keep: a failure that is a ValueError, a
\* TypeError, an AttributeError or a ConversionError is surfaced that way
C10_ListedErrorsSurfaced ==
    (call = "complex.to_knx"
        /\ FailureOf(input).kind \in
             {"ok", "ValueError", "UnicodeEncodeError", "TypeError", "AttributeError",
              "ConversionError"}) =>
        IF FailureOf(input).kind = "ok"
        THEN result = Ok("DPTArray")
        ELSE /\ result.kind = "ConversionError"
             /\ result.val.message = <<"Could not serialize", FailureOf(input).val>>
             /\ result.val.value = input.value

(***************************************************************************)
(* Python strings, as sequences of characters, and the str methods that    *)
(* parse_transcoder uses.  "<sup2>" stands for the character U+00B2, a     *)
(* digit to str.isdigit that int() does not accept.                        *)
(***************************************************************************)
Whitespace == {" ", "\t"}

AsciiDigits == <<"0", "1", "2", "3", "4", "5", "6", "7", "8", "9">>

LowerCase == <<"a", "b", "c", "d", "e", "f", "g", "h", "i", "j", "k", "l", "m",
               "n", "o", "p", "q", "r", "s", "t", "u", "v", "w", "x", "y", "z">>

UpperCase == <<"A", "B", "C", "D", "E", "F", "G", "H", "I", "J", "K", "L", "M",
               "N", "O", "P", "Q", "R", "S", "T", "U", "V", "W", "X", "Y", "Z">>

IndexIn(seq, c) == CHOOSE i \in 1..Len(seq) : seq[i] = c

IsIn(seq, c) == \E i \in 1..Len(seq) : seq[i] = c

RECURSIVE lstrip(_, _)
lstrip(s, chars) ==
    IF s # <<>> /\ Head(s) \in chars THEN lstrip(Tail(s), chars) ELSE s

RECURSIVE rstrip(_, _)
rstrip(s, chars) ==
    IF s # <<>> /\ s[Len(s)] \in chars THEN rstrip(SubSeq(s, 1, Len(s) - 1), chars) ELSE s

\* s.strip(chars)
strip_chars(s, chars) == rstrip(lstrip(s, chars), chars)

\* s.strip()
strip(s) == strip_chars(s, Whitespace)

\* s.upper()
upper(s) ==
    [i \in 1..Len(s) |->
        IF IsIn(LowerCase, s[i]) THEN UpperCase[IndexIn(LowerCase, s[i])] ELSE s[i]]

\* s.isdigit()
isdigit(s) == s # <<>> /\ \A i \in 1..Len(s) : IsIn(AsciiDigits, s[i]) \/ s[i] = "<sup2>"

\* s.split(sep)
RECURSIVE split(_, _)
split(s, sep) ==
    IF \E i \in 1..Len(s) : s[i] = sep
    THEN LET i == CHOOSE k \in 1..Len(s) : s[k] = sep /\ \A j \in 1..(k - 1) : s[j] # sep
         IN <<SubSeq(s, 1, i - 1)>> \o split(SubSeq(s, i + 1, Len(s)), sep)
    ELSE <<s>>

RECURSIVE DigitsValue(_)
DigitsValue(s) ==
    IF s = <<>> THEN 0
    ELSE 10 * DigitsValue(SubSeq(s, 1, Len(s) - 1)) + (IndexIn(AsciiDigits, s[Len(s)]) - 1)

\* int(s) for a str s: surrounding whitespace and one sign are allowed
int_of_str(s) ==
    LET t      == strip(s)
        signed == t # <<>> /\ Head(t) \in {"+", "-"}
        digits == IF signed THEN Tail(t) ELSE t
    IN IF digits # <<>> /\ \A i \in 1..Len(digits) : IsIn(AsciiDigits, digits[i])
       THEN Ok(IF signed /\ Head(t) = "-" THEN 0 - DigitsValue(digits) ELSE DigitsValue(digits))
       ELSE Raise("ValueError", <<>>)

\* str(n) for n >= 0
RECURSIVE str_of_int(_)
str_of_int(n) ==
    IF n < 10 THEN <<AsciiDigits[n + 1]>>
    ELSE Append(str_of_int(n \div 10), AsciiDigits[(n % 10) + 1])

(***************************************************************************)
(* Python objects met as identifiers and as values of a mapping.           *)
(***************************************************************************)
PyObj(t, n, s) == [t |-> t, n |-> n, s |-> s]

\* an identifier handed to parse_transcoder; main and sub are those of a mapping
Identifier(t, n, s, main, sub) == [t |-> t, n |-> n, s |-> s, main |-> main, sub |-> sub]

PyInt(n) == PyObj("int", n, <<>>)

PyStr(s) == PyObj("str", 0, s)

PyNone == PyObj("NoneType", 0, <<>>)

PyInf == PyObj("float_inf", 0, <<>>)

PyList == PyObj("list", 0, <<>>)

\* a key the mapping does not hold
Absent == PyObj("absent", 0, <<>>)

IdInt(n) == Identifier("int", n, <<>>, Absent, Absent)

IdStr(s) == Identifier("str", 0, s, Absent, Absent)

IdMapping(main, sub) == Identifier("Mapping", 0, <<>>, main, sub)

\* an identifier that is no int, no str and no Mapping
IdOther == Identifier("NoneType", 0, <<>>, Absent, Absent)

\* int(x)
int(x) ==
    IF x.t = "int" THEN Ok(x.n)
    ELSE IF x.t = "str" THEN int_of_str(x.s)
    ELSE IF x.t = "float_inf" THEN Raise("OverflowError", <<>>)
    ELSE Raise("TypeError", <<>>)

(***************************************************************************)
(* The class hierarchy.  classes[1] is DPTBase; a class is its parent's    *)
(* index, whether inspect.isabstract holds of it, the names of the         *)
(* identity fields its own __dict__ holds, and their values there.         *)
(* A value_type is a string, or NoneStr for None.                          *)
(***************************************************************************)
NoneStr == <<"<None>">>

IdentityFields == {"dpt_main_number", "dpt_sub_number", "value_type"}

Class(parent, abstract, declares, main, sub, vt) ==
    [parent |-> parent, abstract |-> abstract, declares |-> declares,
     dpt_main_number |-> main, dpt_sub_number |-> sub, value_type |-> vt]

DPTBase == Class(0, TRUE, IdentityFields, None, None, NoneStr)

\* transcoder_by_dpt and transcoder_by_value_type return None
NotFound == 0

\* cls.__subclasses__() in definition order, each followed through
\* __recursive_subclasses__: the subclasses of a subclass come before it
RECURSIVE recursive_subclasses(_, _, _)
recursive_subclasses(cs, cls, from) ==
    IF from > Len(cs) THEN <<>>
    ELSE (IF cs[from].parent = cls
          THEN recursive_subclasses(cs, from, from + 1)
                 \o (IF ~ cs[from].abstract THEN <<from>> ELSE <<>>)
          ELSE <<>>)
         \o recursive_subclasses(cs, cls, from + 1)

dpt_class_tree(cs, cls) ==
    (IF ~ cs[cls].abstract THEN <<cls>> ELSE <<>>) \o recursive_subclasses(cs, cls, cls + 1)

\* getattr(cls, name): the nearest class of the inheritance chain that sets it
RECURSIVE getattr(_, _, _)
getattr(cs, cls, name) ==
    IF name \in cs[cls].declares THEN cs[cls][name] ELSE getattr(cs, cs[cls].parent, name)

\* hasattr(cls, "dpt_main_number") and hasattr(cls, "dpt_sub_number")
InheritedDptNumbers(cs, cls) == TRUE

has_distinct_dpt_numbers(cs, cls) ==
    "dpt_main_number" \in cs[cls].declares /\ "dpt_sub_number" \in cs[cls].declares

has_distinct_value_type(cs, cls) == "value_type" \in cs[cls].declares

\* the first class of the traversal that matches, or None: the for loop with
\* its return
FirstOf(tree, matching) ==
    IF \E k \in 1..Len(tree) : tree[k] \in matching
    THEN tree[CHOOSE k \in 1..Len(tree) :
                 tree[k] \in matching /\ \A j \in 1..(k - 1) : tree[j] \notin matching]
    ELSE NotFound

transcoder_by_dpt(cs, cls, dpt_main, dpt_sub) ==
    FirstOf(dpt_class_tree(cs, cls),
            {dpt \in 1..Len(cs) :
                /\ has_distinct_dpt_numbers(cs, dpt)
                /\ dpt_main = getattr(cs, dpt, "dpt_main_number")
                /\ dpt_sub = getattr(cs, dpt, "dpt_sub_number")})

transcoder_by_value_type(cs, cls, value_type) ==
    FirstOf(dpt_class_tree(cs, cls),
            {dpt \in 1..Len(cs) :
                /\ has_distinct_value_type(cs, dpt)
                /\ value_type = getattr(cs, dpt, "value_type")})

\* the str branch of parse_transcoder once no value_type matched
CaseSensitivePrefix(cs, cls, stripped) ==
    LET string_type == strip_chars(stripped, {" ", "D", "P", "T", "-"}) IN
    IF isdigit(string_type)
    THEN LET n == int_of_str(string_type) IN
         IF n.kind = "ok" THEN Ok(transcoder_by_dpt(cs, cls, n.val, None)) ELSE n
    ELSE LET parts == split(string_type, ".")
             main  == int_of_str(parts[1])
             sub   == int_of_str(parts[2])
         IN IF Len(parts) = 2 /\ main.kind = "ok" /\ sub.kind = "ok"
            THEN Ok(transcoder_by_dpt(cs, cls, main.val, sub.val))
            ELSE Ok(NotFound)

parse_number_string(cs, cls, stripped) ==
    LET string_type == strip_chars(upper(stripped), {" ", "D", "P", "T", "-"}) IN
    IF isdigit(string_type)
    THEN LET n == int_of_str(string_type) IN
         IF n.kind = "ok" THEN Ok(transcoder_by_dpt(cs, cls, n.val, None)) ELSE n
    ELSE LET parts == split(string_type, ".")
             main  == int_of_str(parts[1])
             sub   == int_of_str(parts[2])
         IN IF Len(parts) = 2 /\ main.kind = "ok" /\ sub.kind = "ok"
            THEN Ok(transcoder_by_dpt(cs, cls, main.val, sub.val))
            ELSE Ok(NotFound)

parse_transcoder(cs, cls, value_type) ==
    IF value_type.t = "int"
    THEN Ok(transcoder_by_dpt(cs, cls, value_type.n, None))
    ELSE IF value_type.t = "str"
    THEN LET string_type == strip(value_type.s)
             transcoder  == transcoder_by_value_type(cs, cls, string_type)
         IN IF transcoder = NotFound
            THEN parse_number_string(cs, cls, string_type)
            ELSE Ok(transcoder)
    ELSE IF value_type.t = "Mapping"
    THEN LET main == IF value_type.main = Absent
                     THEN Raise("KeyError", <<>>)
                     ELSE int(value_type.main)
             sub  == IF value_type.sub \in {Absent, PyNone}
                     THEN Ok(None)
                     ELSE int(value_type.sub)
             err  == IF main.kind # "ok" THEN main ELSE sub
         IN IF err.kind \in {"KeyError", "TypeError", "ValueError"}
            THEN Ok(NotFound)
            ELSE IF err.kind # "ok"
            THEN err
            ELSE Ok(transcoder_by_dpt(cs, cls, main.val, sub.val))
    ELSE Ok(NotFound)

(***************************************************************************)
(* Inputs of the registry lookup.                                          *)
(***************************************************************************)
\* dpt numbers and value types that classes declare
DeclaredMains == {9}

DeclaredSubs == {None, 1}

DeclaredValueTypes == {<<"9">>, <<"t", "e", "m", "p">>}

\* main numbers looked up
LookupMains == {9, 10}

Prefixes == {<<"D", "P", "T", "-">>, <<"d", "p", "t", "-">>, <<"D", "p", "t", "-">>}

Paddings == {<<>>, <<"\t", " ">>}

\* strings of the form main.sub, with the pair each asks for
DottedRequests ==
    {[s |-> <<"9", ".", "0", "0", "1">>, main |-> 9, sub |-> 1],
     [s |-> <<"9", ".", "9", "9", "9">>, main |-> 9, sub |-> 999],
     [s |-> <<" ", "9", ".", "1">>, main |-> 9, sub |-> 1],
     [s |-> <<"1", "0", ".", "0", "0", "1">>, main |-> 10, sub |-> 1]}

OtherStrings ==
    {<<"9">>, <<"1", "0">>, <<"D", "P", "T", "-", "9">>, <<"t", "e", "m", "p">>,
     <<" ", "t", "e", "m", "p", " ">>, <<"T", "E", "M", "P">>, <<"9", ".">>,
     <<"9", ".", "1", ".", "1">>, <<"9", ".", "x">>, <<"<sup2>">>, <<>>}

MappingMains ==
    {Absent, PyNone, PyList, PyInf, PyInt(9), PyStr(<<"9">>), PyStr(<<"x">>)}

MappingSubs ==
    {Absent, PyNone, PyInt(1), PyStr(<<"0", "0", "1">>), PyStr(<<"x">>)}

Identifiers ==
    {IdInt(n) : n \in LookupMains}
      \cup {IdStr(r.s) : r \in DottedRequests}
      \cup {IdStr(s) : s \in OtherStrings}
      \cup {IdMapping(main, sub) : main \in MappingMains, sub \in MappingSubs}
      \cup {IdOther}

(***************************************************************************)
(* The registry: classes are defined below DPTBase, then a lookup is made  *)
(* on one of the classes.                                                  *)
(***************************************************************************)
InitRegistry ==
    /\ call = "none"
    /\ input = <<>>
    /\ result = NoCall
    /\ origin = NoOrigin
    /\ classes = <<DPTBase>>

\* class X(parent): ... with the identity fields it sets itself
DefineClass ==
    /\ call = "none"
    /\ Len(classes) < 1 + MaxClasses
    /\ \E parent \in 1..Len(classes), abstract \in BOOLEAN, declares \in SUBSET IdentityFields,
          main \in DeclaredMains, sub \in DeclaredSubs, vt \in DeclaredValueTypes :
        /\ classes' = Append(classes,
               Class(parent, abstract, declares,
                     IF "dpt_main_number" \in declares THEN main ELSE None,
                     IF "dpt_sub_number" \in declares THEN sub ELSE None,
                     IF "value_type" \in declares THEN vt ELSE NoneStr))
        /\ UNCHANGED <<call, input, result, origin>>

\* cls.parse_transcoder(value_type)
ParseTranscoder ==
    /\ call = "none"
    /\ \E cls \in 1..Len(classes), value_type \in Identifiers :
        /\ call' = "parse_transcoder"
        /\ input' = [cls |-> cls, value_type |-> value_type]
        /\ result' = parse_transcoder(classes, cls, value_type)
        /\ origin' = NoOrigin
        /\ UNCHANGED classes

\* cls.parse_transcoder on "DPT-n", on "n" and on n, the strings padded with
\* whitespace and the prefix in some letter case
ParseThreeForms ==
    /\ call = "none"
    /\ \E cls \in 1..Len(classes), n \in LookupMains, prefix \in Prefixes,
          lead \in Paddings, trail \in Paddings :
        /\ call' = "parse_transcoder x3"
        /\ input' = [cls |-> cls, n |-> n,
                     prefixed |-> lead \o prefix \o str_of_int(n) \o trail,
                     plain |-> lead \o str_of_int(n) \o trail]
        /\ result' = <<parse_transcoder(classes, cls, IdStr(lead \o prefix \o str_of_int(n) \o trail)),
                       parse_transcoder(classes, cls, IdStr(lead \o str_of_int(n) \o trail)),
                       parse_transcoder(classes, cls, IdInt(n))>>
        /\ origin' = NoOrigin
        /\ UNCHANGED classes

NextRegistry == DefineClass \/ ParseTranscoder \/ ParseThreeForms

SpecRegistry == InitRegistry /\ [][NextRegistry]_vars

(***************************************************************************)
(* What a lookup on cls may return: a class at or below cls that is not    *)
(* abstract.  The pair and the alias a class answers to are those its own  *)
(* __dict__ holds.                                                         *)
(***************************************************************************)
RECURSIVE IsSubclassOf(_, _, _)
IsSubclassOf(cs, c, cls) ==
    IF c = cls THEN TRUE
    ELSE IF c < cls \/ c = 0 THEN FALSE
    ELSE IsSubclassOf(cs, cs[c].parent, cls)

Concrete(cs, cls) == {c \in 1..Len(cs) : IsSubclassOf(cs, c, cls) /\ ~ cs[c].abstract}

DeclaresPair(cs, c, main, sub) ==
    /\ {"dpt_main_number", "dpt_sub_number"} \subseteq cs[c].declares
    /\ cs[c].dpt_main_number = main
    /\ cs[c].dpt_sub_number = sub

DeclaresAlias(cs, c, s) ==
    /\ "value_type" \in cs[c].declares
    /\ cs[c].value_type = s

\* r is a class of the registry declaring exactly (main, sub), or not-found
\* when the registry holds none
ExactPair(cs, cls, r, main, sub) ==
    IF \E c \in Concrete(cs, cls) : DeclaresPair(cs, c, main, sub)
    THEN r \in Concrete(cs, cls) /\ DeclaresPair(cs, r, main, sub)
    ELSE r = NotFound

AliasDeclared(cs, cls, s) == \E c \in Concrete(cs, cls) : DeclaresAlias(cs, c, s)

(***************************************************************************)
(* C7: parse_transcoder("DPT-n"), parse_transcoder("n") and                *)
(* parse_transcoder(n) return the same result, the transcoder declaring    *)
(* (n, None) or not-found, whatever the registered classes declare and     *)
(* whatever the whitespace around the string and the case of the prefix.   *)
(***************************************************************************)
C7_LookupEquivalence ==
    call = "parse_transcoder x3" =>
        /\ result[1] = result[3]
        /\ result[2] = result[3]
        /\ result[3].kind = "ok"
        /\ ExactPair(classes, input.cls, result[3].val, input.n, None)

(***************************************************************************)
(* C7, amended: the three lookups agree as stated provided no registered   *)
(* transcoder declares a value_type equal to one of the two strings with   *)
(* its surrounding whitespace removed.                                     *)
(***************************************************************************)
C7_LookupEquivalenceNoAlias ==
    (/\ call = "parse_transcoder x3"
     /\ ~ AliasDeclared(classes, input.cls, strip_chars(input.prefixed, Whitespace))
     /\ ~ AliasDeclared(classes, input.cls, strip_chars(input.plain, Whitespace))) =>
        /\ result[1] = result[3]
        /\ result[2] = result[3]
        /\ result[3].kind = "ok"
        /\ ExactPair(classes, input.cls, result[3].val, input.n, None)

\* C7 happens: " dpt-9 " padded with whitespace, "9" and 9 all find the class
\* declaring (9, None)
C7_Witness ==
    /\ call = "parse_transcoder x3"
    /\ input.n = 9
    /\ input.prefixed = <<"\t", " ", "d", "p", "t", "-", "9", "\t", " ">>
    /\ ~ AliasDeclared(classes, input.cls, <<"9">>)
    /\ result[1].kind = "ok"
    /\ result[1].val # NotFound
    /\ result[2] = result[1]
    /\ result[3] = result[1]

(***************************************************************************)
(* C8: a lookup by number (an int, a mapping, a dotted string that is no   *)
(* alias) returns a transcoder declaring exactly the pair asked for, where *)
(* an absent or null sub asks for sub None, and not-found when no          *)
(* registered transcoder declares the pair; a mapping whose main is        *)
(* missing or cannot be made an int returns not-found, and no mapping      *)
(* makes the lookup raise.                                                 *)
(***************************************************************************)
MainOf(value_type) == int(value_type.main)

SubOf(value_type) ==
    IF value_type.sub \in {Absent, PyNone} THEN Ok(None) ELSE int(value_type.sub)

C8_IntLookup ==
    (call = "parse_transcoder" /\ input.value_type.t = "int") =>
        /\ result.kind = "ok"
        /\ ExactPair(classes, input.cls, result.val, input.value_type.n, None)

C8_DottedLookup ==
    \A r \in DottedRequests :
        (/\ call = "parse_transcoder"
         /\ input.value_type = IdStr(r.s)
         /\ ~ AliasDeclared(classes, input.cls, strip_chars(r.s, Whitespace))) =>
            /\ result.kind = "ok"
            /\ ExactPair(classes, input.cls, result.val, r.main, r.sub)

C8_MappingLookup ==
    (call = "parse_transcoder" /\ input.value_type.t = "Mapping") =>
        /\ result.kind = "ok"
        /\ IF input.value_type.main = Absent \/ MainOf(input.value_type).kind # "ok"
           THEN result.val = NotFound
           ELSE IF SubOf(input.value_type).kind # "ok"
           THEN result.val = NotFound
           ELSE ExactPair(classes, input.cls, result.val,
                          MainOf(input.value_type).val, SubOf(input.value_type).val)

\* C8: every lookup by number returns exactly the pair asked for or not-found,
\* and no mapping makes it raise
C8_ExactPairLookup == C8_IntLookup /\ C8_DottedLookup /\ C8_MappingLookup

\* the part of C8 the code does keep: everything but a main or sub that is a
\* float infinity
C8_ExactPairButInfinity ==
    /\ C8_IntLookup
    /\ C8_DottedLookup
    /\ (call = "parse_transcoder" /\ input.value_type.t = "Mapping"
          /\ input.value_type.main # PyInf /\ input.value_type.sub # PyInf)
         => C8_MappingLookup

(***************************************************************************)
(* C9: the class parse_transcoder returns is never abstract; returned for  *)
(* a number it holds dpt_main_number and dpt_sub_number in its own         *)
(* __dict__, returned for an alias it holds value_type there; a class that *)
(* only inherits a matching identity is never returned.                    *)
(***************************************************************************)
SelfDeclared(cs, cls, value_type, r) ==
    r # NotFound =>
        /\ r \in Concrete(cs, cls)
        /\ IF value_type.t = "str"
           THEN \/ DeclaresAlias(cs, r, strip_chars(value_type.s, Whitespace))
                \/ {"dpt_main_number", "dpt_sub_number"} \subseteq cs[r].declares
           ELSE {"dpt_main_number", "dpt_sub_number"} \subseteq cs[r].declares

\* C9: a returned class is concrete and holds the identity it was found by in
\* its own __dict__
C9_AbstractExclusion ==
    /\ (call = "parse_transcoder" /\ result.kind = "ok") =>
           SelfDeclared(classes, input.cls, input.value_type, result.val)
    /\ call = "parse_transcoder x3" =>
           /\ result[1].kind = "ok" =>
                  SelfDeclared(classes, input.cls, IdStr(input.prefixed), result[1].val)
           /\ result[2].kind = "ok" =>
                  SelfDeclared(classes, input.cls, IdStr(input.plain), result[2].val)
           /\ result[3].kind = "ok" =>
                  SelfDeclared(classes, input.cls, IdInt(input.n), result[3].val)

\* C9 happens: class 3 is concrete and inherits (9, None) from class 2, and the
\* lookup of 9 returns class 2
C9_Witness ==
    /\ call = "parse_transcoder"
    /\ input.cls = 1
    /\ input.value_type = IdInt(9)
    /\ Len(classes) = 3
    /\ classes[3].parent = 2
    /\ ~ classes[3].abstract
    /\ classes[3].declares = {}
    /\ DeclaresPair(classes, 2, 9, None)
    /\ result = Ok(2)

====
